---- MODULE Spec2Model ----
(***************************************************************************)
(* gamemon: the play-diffing and state-refresh loop of GameMonitorApp      *)
(* (src/gamemon.py).  Text is modelled as a sequence of one-character      *)
(* strings so that lower-casing and substring search are computed, not     *)
(* assumed.  A JSON field that is absent is modelled by the value the      *)
(* code's .get() default produces.                                         *)
(***************************************************************************)
EXTENDS Integers, Sequences, FiniteSets, TLC

VARIABLES
    app,            \* "new" before on_mount, "running" after it, "exited" after quit,
                    \* "crashed" after an exception left a handler;
                    \* "extract"/"extracted" around a call of a play extractor alone
    sport,          \* the CLI sport selector: "nfl" or "ncaambb"
    max_scrollback, \* CONFIG["max_scrollback"] as read by refresh_data
    game_state,     \* game["state"]
    last_play_ids,  \* self.last_play_ids
    last_scores,    \* self.last_scores
    initialized,    \* self.initialized
    static_log,     \* self.static_log
    plays_log,      \* self.plays_log (newest first)
    _finalized,      \* self._finalized
    _timer,          \* self._timer: "none", "running" or "paused"
    paused,         \* self.paused
    net_status,     \* self.net_status
    data,           \* what the last fetch_json call returned (<< >> is {})
    new_plays,      \* what the last play extraction returned
    appended,       \* the plays passed to _append_play by the last handler call
    notified,       \* the notify() calls made by the last handler call
    last_call,      \* which handler ran last, and which branch it took
    game_over_count,\* number of "Game Over" notify() calls so far
    fetches,        \* number of fetch_json calls so far
    returned_ids,   \* identifiers returned as new by any extraction so far
    follow,         \* self.follow
    filter_mode,    \* self.filter_mode: "all", "scores", "penalties", "turnovers"
    search_query,   \* self.search_query
    tabs_active,    \* the active pane of the TabbedContent: "pbp" or "stats"
    search_hidden,  \* whether the search input carries the class "hidden"
    arg_play,       \* the play dict given to _play_tags and _play_emoji alone
    arg_overrides,  \* CONFIG["emoji_overrides"] of such a call
    ret_tags,       \* what _play_tags returned
    ret_emoji,      \* what _play_emoji returned
    state,          \* the dict shared with the key listener: tab and quit
    stop_event,     \* the threading.Event of the key listener
    tty_attrs,      \* term: the attributes of the terminal; old: the saved copy
    listener_pc,    \* where the key listener thread is
    main_pc,        \* what the loop that reads state saw last
    ch              \* the character the listener read last

vars == <<app, sport, max_scrollback, game_state, last_play_ids, last_scores,
          initialized, static_log, plays_log, _finalized, _timer, paused,
          net_status, data, new_plays, appended, notified, last_call,
          game_over_count, fetches, returned_ids,
          follow, filter_mode, search_query, tabs_active, search_hidden,
          arg_play, arg_overrides, ret_tags, ret_emoji,
          state, stop_event, tty_attrs, listener_pc, main_pc, ch>>

\* the view settings of GameMonitorApp
view_vars == <<follow, filter_mode, search_query, tabs_active, search_hidden>>

\* the arguments and results of a classifier call made alone
classify_vars == <<arg_play, arg_overrides, ret_tags, ret_emoji>>

\* the key listener thread and what it shares
listener_vars == <<state, stop_event, tty_attrs, listener_pc, main_pc, ch>>

-----------------------------------------------------------------------------
(* Bounds of the model.                                                    *)

\* play identifiers of the feed are 1..MaxId; 0 stands for a missing id
MaxId == 15
\* a session makes at most MaxTicks fetches
MaxTicks == 3
\* the configured max_scrollback values tried are SmallScrollback and
\* FirstTickLimit + SmallScrollback
SmallScrollback == 2

\* the play lists given to the extractors alone have identifiers 0..MaxDedupeId
\* and at most MaxFeedLen records
MaxDedupeId == 3
MaxFeedLen == 3

\* the play texts given to the classifier alone are made of at most
\* MaxFragments words
MaxFragments == 2

\* the configured max_plays of the sessions
SmallMaxPlays == 2

\* new_plays[-10:] on the first tick
FirstTickLimit == 10

-----------------------------------------------------------------------------
(* Text.                                                                   *)

\* the keywords _play_tags and _play_emoji look for
Kw ==
    [penalty |-> <<"p","e","n","a","l","t","y">>,
     penal |-> <<"p","e","n","a","l">>,
     foul |-> <<"f","o","u","l">>,
     intercept |-> <<"i","n","t","e","r","c","e","p","t">>,
     fumble |-> <<"f","u","m","b","l","e">>,
     sack |-> <<"s","a","c","k">>,
     sacked |-> <<"s","a","c","k","e","d">>,
     punt |-> <<"p","u","n","t">>,
     turnover |-> <<"t","u","r","n","o","v","e","r">>,
     steal |-> <<"s","t","e","a","l">>,
     digit_3 |-> <<"3">>,
     pt |-> <<"p","t">>,
     three |-> <<"t","h","r","e","e">>,
     touchdown |-> <<"t","o","u","c","h","d","o","w","n">>,
     field_goal |-> <<"f","i","e","l","d"," ","g","o","a","l">>,
     safety |-> <<"s","a","f","e","t","y">>,
     extra_point |-> <<"e","x","t","r","a"," ","p","o","i","n","t">>,
     two_point |-> <<"t","w","o","-","p","o","i","n","t">>,
     digit_2_point |-> <<"2","-","p","o","i","n","t">>,
     timeout |-> <<"t","i","m","e","o","u","t">>,
     miss |-> <<"m","i","s","s">>,
     incomplete |-> <<"i","n","c","o","m","p","l","e","t","e">>,
     pass |-> <<"p","a","s","s">>,
     left |-> <<"l","e","f","t">>,
     right |-> <<"r","i","g","h","t">>,
     up_the_middle |-> <<"u","p"," ","t","h","e"," ","m","i","d","d","l","e">>,
     rush |-> <<"r","u","s","h">>,
     run |-> <<"r","u","n">>]

K_final == <<"f","i","n","a","l">>

T_sacked == <<"S","a","c","k","e","d">>
T_td == <<"T","D"," ","P","a","s","s">>
T_run == <<"r","u","n"," ","l","e","f","t">>
T_foul == <<"F","o","u","l"," ","3","p","t">>
T_steal == <<"s","t","e","a","l">>
T_punt == <<"P","U","N","T">>
Y_pass == <<"P","a","s","s">>
Y_penalty == <<"P","e","n","a","l","t","y">>
Y_rush == <<"R","u","s","h">>
T_FINAL == <<"F","I","N","A","L">>

UpperChars == <<"A","B","C","D","E","F","G","H","I","J","K","L","M",
                "N","O","P","Q","R","S","T","U","V","W","X","Y","Z">>
LowerChars == <<"a","b","c","d","e","f","g","h","i","j","k","l","m",
                "n","o","p","q","r","s","t","u","v","w","x","y","z">>

\* str.lower() on one character
LowerChar(c) ==
    IF \E i \in 1..Len(UpperChars) : UpperChars[i] = c
    THEN LowerChars[CHOOSE i \in 1..Len(UpperChars) : UpperChars[i] = c]
    ELSE c

\* str.lower()
Lower(s) == [i \in 1..Len(s) |-> LowerChar(s[i])]

\* needle in hay
Contains(needle, hay) ==
    \E i \in 0..(Len(hay) - Len(needle)) :
        SubSeq(hay, i + 1, i + Len(needle)) = needle

-----------------------------------------------------------------------------
(* The feed: the JSON play records of the game.                            *)

PlayTexts == <<T_sacked, T_td, T_run, T_foul, T_steal, T_punt>>
PlayTypes == <<Y_pass, Y_penalty, Y_rush>>

\* the JSON play record with identifier i (i = 0: a record without "id")
RawPlay(i) ==
    [id          |-> i,
     text        |-> PlayTexts[(i % Len(PlayTexts)) + 1],
     clock       |-> IF i % 2 = 0 THEN "5:00" ELSE "",
     period      |-> i % 6,
     down        |-> IF i % 2 = 0 THEN "1st & 10" ELSE "",
     scoringPlay |-> (i % 3 = 0),
     type        |-> PlayTypes[(i % Len(PlayTypes)) + 1],
     team        |-> IF i % 2 = 0 THEN "AWY" ELSE "HOM"]

\* the plays lo..hi in feed order
Window(lo, hi) == [k \in 1..(IF hi >= lo THEN hi - lo + 1 ELSE 0) |-> RawPlay(lo + k - 1)]

-----------------------------------------------------------------------------
(* get_scores                                                              *)

Digits == <<"0","1","2","3","4","5","6","7","8","9">>

IsDigit(c) == \E i \in 1..Len(Digits) : Digits[i] = c

DigitValue(c) == (CHOOSE i \in 1..Len(Digits) : Digits[i] = c) - 1

\* whether int(s) succeeds on the string s (otherwise it raises ValueError)
IsNumeric(s) == Len(s) > 0 /\ \A i \in 1..Len(s) : IsDigit(s[i])

RECURSIVE IntOf(_)
\* int(s) for a string of decimal digits
IntOf(s) ==
    IF s = << >> THEN 0
    ELSE 10 * IntOf(SubSeq(s, 1, Len(s) - 1)) + DigitValue(s[Len(s)])

\* the JSON values a "score" entry can hold: a string, null, or no entry
JsonString(chars) == [json |-> "string", value |-> chars]
JsonNull == [json |-> "null", value |-> << >>]
JsonMissing == [json |-> "missing", value |-> << >>]

\* what int(comp.get("score", 0)) raises: nothing, ValueError or TypeError
IntFault(v) ==
    IF v.json = "null" THEN "TypeError"
    ELSE IF v.json = "string" /\ ~IsNumeric(v.value) THEN "ValueError"
    ELSE "none"

\* int(comp.get("score", 0)) when it raises nothing
ScoreInt(v) == IF v.json = "missing" THEN 0 ELSE IntOf(v.value)

RECURSIVE FirstFault(_)
\* the exception that ends the loop over the competitors, if any
FirstFault(competitors) ==
    IF competitors = << >> THEN "none"
    ELSE IF IntFault(Head(competitors).score) # "none"
         THEN IntFault(Head(competitors).score)
         ELSE FirstFault(Tail(competitors))

RECURSIVE ScoresLoop(_, _, _)
\* the loop over the competitors: the last "away" entry sets away_score, every
\* other entry sets home_score
ScoresLoop(competitors, away_score, home_score) ==
    IF competitors = << >> THEN <<away_score, home_score>>
    ELSE LET comp  == Head(competitors)
             score == ScoreInt(comp.score)
         IN  IF comp.homeAway = "away"
             THEN ScoresLoop(Tail(competitors), score, home_score)
             ELSE ScoresLoop(Tail(competitors), away_score, score)

\* whether get_scores raises: the TypeError of int(None) is not among the
\* exceptions it catches
get_scores_raises(d, sp) ==
    Len(d.competitors) >= 2 /\ FirstFault(d.competitors) = "TypeError"

\* the pair get_scores returns (when it returns)
get_scores(d, sp) ==
    IF Len(d.competitors) >= 2
    THEN IF FirstFault(d.competitors) = "ValueError"
         THEN <<0, 0>>                       \* except ValueError: pass
         ELSE ScoresLoop(d.competitors, 0, 0)
    ELSE <<0, 0>>

-----------------------------------------------------------------------------
(* get_plays_nfl, get_plays_basketball                                     *)

\* IsNewPlay without the test of play_id itself
IsNewPlay_AnyId(play_id, ids) == play_id \notin ids

\* if play_id and play_id not in last_play_ids
IsNewPlay(play_id, ids) == play_id # 0 /\ play_id \notin ids

\* MarkSeen without the insertion
MarkSeen_Forgets(ids, play_id) == ids

\* last_play_ids.add(play_id)
MarkSeen(ids, play_id) == ids \cup {play_id}

\* the dict appended to new_plays
ExtractedPlay(play, sp) ==
    IF sp = "nfl"
    THEN [id |-> play.id, text |-> play.text, clock |-> play.clock,
          period |-> play.period, down |-> play.down,
          scoring |-> play.scoringPlay, type |-> play.type]
    ELSE [id |-> play.id, text |-> play.text, clock |-> play.clock,
          period |-> play.period, scoring |-> play.scoringPlay,
          team |-> play.team]

RECURSIVE PlaysLoop(_, _, _, _)
\* for play in plays: ...
PlaysLoop(plays, sp, ids, out) ==
    IF plays = << >> THEN [new_plays |-> out, last_play_ids |-> ids]
    ELSE LET play == Head(plays)
         IN  IF IsNewPlay(play.id, ids)
             THEN PlaysLoop(Tail(plays), sp, MarkSeen(ids, play.id),
                            Append(out, ExtractedPlay(play, sp)))
             ELSE PlaysLoop(Tail(plays), sp, ids, out)

\* reads data["drives"]["current"]["plays"]
get_plays_nfl(d, ids) == PlaysLoop(d.drives, "nfl", ids, << >>)

\* reads data["plays"]
get_plays_basketball(d, ids) == PlaysLoop(d.plays, "ncaambb", ids, << >>)

-----------------------------------------------------------------------------
(* format_period, _play_tags, _play_emoji, display_play                      *)

\* the label and the number printed after it (0 when the label is fixed)
format_period(period, sp) ==
    IF sp = "nfl"
    THEN IF period \in 1..4 THEN [label |-> "Q", n |-> period]
         ELSE IF period > 4 THEN [label |-> "OT", n |-> period - 4]
         ELSE [label |-> "Q", n |-> period]
    ELSE IF period = 1 THEN [label |-> "1H", n |-> 0]
         ELSE IF period = 2 THEN [label |-> "2H", n |-> 0]
         ELSE IF period > 2 THEN [label |-> "OT", n |-> period - 2]
         ELSE [label |-> "H", n |-> period]

\* play.get("type") or ""
PlayType(play) == IF "type" \in DOMAIN play THEN play.type ELSE << >>

\* the tags added in the branch sport == "nfl"
NflTags(text, ptype) ==
    (IF Contains(Kw.intercept, text) \/ Contains(Kw.intercept, ptype)
        \/ Contains(Kw.fumble, text)
     THEN {"turnover"} ELSE {})
    \cup (IF Contains(Kw.sack, text) \/ Contains(Kw.sacked, text)
          THEN {"sack"} ELSE {})
    \cup (IF Contains(Kw.punt, text) \/ Contains(Kw.punt, ptype)
          THEN {"punt"} ELSE {})

\* BasketballTags taking the word "three" alone for a three-pointer
BasketballTags_ThreeWord(text, ptype) ==
    (IF Contains(Kw.turnover, text) \/ Contains(Kw.steal, text)
     THEN {"turnover"} ELSE {})
    \cup (IF Contains(Kw.three, text)
             \/ (Contains(Kw.digit_3, text) /\ Contains(Kw.pt, text))
          THEN {"three"} ELSE {})

\* BasketballTags with the punt rule of the other branch
BasketballTags_Punt(text, ptype) ==
    (IF Contains(Kw.turnover, text) \/ Contains(Kw.steal, text)
     THEN {"turnover"} ELSE {})
    \cup (IF Contains(Kw.digit_3, text)
             /\ (Contains(Kw.pt, text) \/ Contains(Kw.three, text))
          THEN {"three"} ELSE {})
    \cup (IF Contains(Kw.punt, text) \/ Contains(Kw.punt, ptype)
          THEN {"punt"} ELSE {})

\* the tags added in the else branch
BasketballTags(text, ptype) ==
    (IF Contains(Kw.turnover, text) \/ Contains(Kw.steal, text)
     THEN {"turnover"} ELSE {})
    \cup (IF Contains(Kw.digit_3, text)
             /\ (Contains(Kw.pt, text) \/ Contains(Kw.three, text))
          THEN {"three"} ELSE {})

_play_tags(play, sp) ==
    LET text  == Lower(play.text)
        ptype == Lower(PlayType(play))
    IN  (IF play.scoring THEN {"score"} ELSE {})
        \cup (IF Contains(Kw.penalty, text) \/ Contains(Kw.penal, ptype)
                 \/ Contains(Kw.foul, text)
              THEN {"penalty"} ELSE {})
        \cup (IF sp = "nfl" THEN NflTags(text, ptype)
              ELSE BasketballTags(text, ptype))

\* CONFIG["emoji_overrides"], in insertion order: [needle, emoji] entries
emoji_overrides == << >>

\* whether the override entry applies to the play
OverrideMatches(o, text, ptype) ==
    /\ o.needle # << >>
    /\ o.emoji # ""
    /\ (Contains(Lower(o.needle), text) \/ Contains(Lower(o.needle), ptype))

\* TextEmoji looking for a pass before a miss
TextEmoji_PassFirst(text, ptype) ==
    LET has(k) == Contains(k, text) \/ Contains(k, ptype)
    IN  IF has(Kw.timeout) THEN "stopwatch"
        ELSE IF has(Kw.pass) THEN "thumbsup"
        ELSE IF Contains(Kw.miss, text) \/ Contains(Kw.incomplete, text) THEN "cross"
        ELSE IF Contains(Kw.left, text) \/ Contains(Kw.right, text)
                \/ Contains(Kw.up_the_middle, text) \/ Contains(Kw.rush, text)
                \/ Contains(Kw.run, ptype)
             THEN "runner"
        ELSE "bullet"

\* the emoji of a play that has none of the tags score, turnover, penalty,
\* punt, sack
TextEmoji(text, ptype) ==
    LET has(k) == Contains(k, text) \/ Contains(k, ptype)
    IN  IF has(Kw.timeout) THEN "stopwatch"
        ELSE IF Contains(Kw.miss, text) \/ Contains(Kw.incomplete, text) THEN "cross"
        ELSE IF has(Kw.pass) THEN "thumbsup"
        ELSE IF Contains(Kw.left, text) \/ Contains(Kw.right, text)
                \/ Contains(Kw.up_the_middle, text) \/ Contains(Kw.rush, text)
                \/ Contains(Kw.run, ptype)
             THEN "runner"
        ELSE "bullet"

\* _play_emoji when CONFIG["emoji_overrides"] is overrides
_play_emoji_with(overrides, play, sp) ==
    LET text  == Lower(play.text)
        ptype == Lower(PlayType(play))
        hits  == {i \in 1..Len(overrides) :
                     OverrideMatches(overrides[i], text, ptype)}
        tags  == _play_tags(play, sp)
        has(k) == Contains(k, text) \/ Contains(k, ptype)
    IN  IF hits # {}
        THEN overrides[CHOOSE i \in hits : \A j \in hits : i <= j].emoji
        ELSE IF "score" \in tags
        THEN IF sp = "nfl"
             THEN IF has(Kw.touchdown) THEN "football"
                  ELSE IF has(Kw.field_goal) THEN "dart"
                  ELSE IF has(Kw.safety) THEN "shield"
                  ELSE IF has(Kw.extra_point) THEN "plus"
                  ELSE IF Contains(Kw.two_point, text) \/ Contains(Kw.digit_2_point, text)
                       THEN "keycap2"
                  ELSE "green"
             ELSE IF "three" \in tags THEN "dart" ELSE "basketball"
        ELSE IF "turnover" \in tags
        THEN IF sp = "nfl" /\ has(Kw.intercept) THEN "gloves" ELSE "collision"
        ELSE IF "penalty" \in tags
        THEN IF sp = "nfl" THEN "flag" ELSE "siren"
        ELSE IF "punt" \in tags THEN "leg"
        ELSE IF "sack" \in tags THEN "bricks"
        ELSE TextEmoji(text, ptype)

\* _play_emoji with the configuration the sessions run under
_play_emoji(play, sp) == _play_emoji_with(emoji_overrides, play, sp)

\* the rendered line: emoji, markup style, label inside the markup, time, text
display_play(play, sp) ==
    LET tags == _play_tags(play, sp)
        time == [clock |-> play.clock, period |-> format_period(play.period, sp)]
        line(style, label) ==
            [emoji |-> _play_emoji(play, sp), style |-> style, label |-> label,
             time |-> time, text |-> play.text]
    IN  IF "score" \in tags
        THEN IF sp = "nfl" THEN line("bold green", "SCORE!")
             ELSE line("bold green", play.team)
        ELSE IF "turnover" \in tags THEN line("bold yellow", "TURNOVER")
        ELSE IF "penalty" \in tags THEN line("yellow", "")
        ELSE line("dim", "")

-----------------------------------------------------------------------------
(* What fetch_json can return.                                             *)

ScoreStr(n) == <<Digits[n + 1]>>

\* header.competitions[0].competitors with the scores a (away) and h (home)
Competitors(a, h) ==
    <<[homeAway |-> "home", score |-> JsonString(ScoreStr(h))],
      [homeAway |-> "away", score |-> JsonString(ScoreStr(a))]>>

\* the score pairs (away, home) of the snapshots tried
ScorePairs == {<<0, 0>>, <<1, 0>>, <<0, 1>>, <<1, 1>>}

\* the last play of the feeds tried
FeedEnds == {0, 1, 3, MaxId}

\* the play lists tried: the game's plays up to some play
Feeds == {Window(1, hi) : hi \in FeedEnds}

\* the snapshots: a lifecycle state (or none), the two competitors, and the
\* plays where the sport's summary carries them
Snapshots(sp) ==
    {[state |-> st, competitors |-> c,
      plays  |-> IF sp = "nfl" THEN << >> ELSE f,
      drives |-> IF sp = "nfl" THEN f ELSE << >>] :
        st \in {"pre", "in", "post", "absent"},
        c \in {Competitors(p[1], p[2]) : p \in ScorePairs},
        f \in Feeds}

NflSnapshots == Snapshots("nfl")
BasketballSnapshots == Snapshots("ncaambb")

\* fetch_json returns {} when the request or the parse fails
FetchResults(sp) ==
    {<< >>} \cup (IF sp = "nfl" THEN NflSnapshots ELSE BasketballSnapshots)

-----------------------------------------------------------------------------
(* GameMonitorApp                                                          *)

DefaultScrollback == 1500

\* int((CONFIG or {}).get("max_scrollback", 1500) or 1500)
MaxKeep(cfg) == IF cfg = 0 THEN DefaultScrollback ELSE cfg

\* xs[-n:]
LastN(xs, n) == IF Len(xs) <= n THEN xs ELSE SubSeq(xs, Len(xs) - n + 1, Len(xs))

\* xs[:n]
FirstN(xs, n) == IF Len(xs) <= n THEN xs ELSE SubSeq(xs, 1, n)

\* the entry _append_play builds for a play
BuildEntry(play, sp) ==
    [line |-> display_play(play, sp), raw |-> Lower(play.text),
     tags |-> _play_tags(play, sp)]

\* BuildEntry of every play of the feed, computed once
EntryTable ==
    {<<sp, i, BuildEntry(ExtractedPlay(RawPlay(i), sp), sp)>> :
        sp \in {"nfl", "ncaambb"}, i \in 1..MaxId}

\* BuildEntry(play, sp), looked up in EntryTable when play is a play of the feed
LogEntry(play, sp) ==
    IF play.id \in 1..MaxId /\ play = ExtractedPlay(RawPlay(play.id), sp)
    THEN (CHOOSE t \in EntryTable : t[1] = sp /\ t[2] = play.id)[3]
    ELSE BuildEntry(play, sp)

\* _append_play adding the entry at the end of the list
_append_play_AtEnd(log, play, sp) == log \o <<LogEntry(play, sp)>>

\* self.plays_log.insert(0, ...)
_append_play(log, play, sp) == <<LogEntry(play, sp)>> \o log

RECURSIVE AppendAll(_, _, _)
\* for play in plays: self._append_play(play)
AppendAll(log, plays, sp) ==
    IF plays = << >> THEN log
    ELSE AppendAll(_append_play(log, Head(plays), sp), Tail(plays), sp)

\* FirstTickPlays without the cut
FirstTickPlays_All(plays) == plays

\* the plays surfaced on the first tick: new_plays[-10:]
FirstTickPlays(plays) == LastN(plays, FirstTickLimit)

\* one notify() call: what it is about and the score pair in its message
Note(kind, scores) == [kind |-> kind, away |-> scores[1], home |-> scores[2]]

\* PlayNotes notifying for every play
PlayNotes_Every(plays, scores) == [i \in 1..Len(plays) |-> Note("play", scores)]

\* the notify() calls of the loop over new_plays: one per scoring play
PlayNotes(plays, scores) ==
    SelectSeq([i \in 1..Len(plays) |->
                  IF plays[i].scoring THEN Note("play", scores) ELSE Note("", scores)],
              LAMBDA n : n.kind = "play")

\* ScoreNotes looking at the home score first
ScoreNotes_HomeFirst(prev, scores) ==
    IF scores # prev
    THEN IF scores[2] > prev[2] THEN <<Note("home", scores)>>
         ELSE IF scores[1] > prev[1] THEN <<Note("away", scores)>>
         ELSE << >>
    ELSE << >>

\* the score comparison of refresh_data
ScoreNotes(prev, scores) ==
    IF scores # prev
    THEN IF scores[1] > prev[1] THEN <<Note("away", scores)>>
         ELSE IF scores[2] > prev[2] THEN <<Note("home", scores)>>
         ELSE << >>
    ELSE << >>

\* TickNotes comparing the scores before going through the plays
TickNotes_ScoreFirst(first, plays, prev, scores) ==
    IF first THEN << >>
    ELSE ScoreNotes(prev, scores) \o PlayNotes(plays, scores)

\* TickNotes without the first-tick branch
TickNotes_Always(first, plays, prev, scores) ==
    PlayNotes(plays, scores) \o ScoreNotes(prev, scores)

\* the notify() calls of the if/else on self.initialized: none on the first
\* tick, afterwards the scoring plays' and then the score change's
TickNotes(first, plays, prev, scores) ==
    IF first THEN << >>
    ELSE PlayNotes(plays, scores) \o ScoreNotes(prev, scores)

\* NewLastScores with the first tick's assignment left out
NewLastScores_NotFirst(first, prev, scores) == IF first THEN prev ELSE scores

\* self.last_scores = scores, in both branches
NewLastScores(first, prev, scores) == scores

\* if len(self.plays_log) > max_keep: self.plays_log = self.plays_log[:max_keep]
Trim(log, max_keep) == IF Len(log) > max_keep THEN FirstN(log, max_keep) ELSE log

ScoreText(scores) == <<Digits[scores[1] + 1], " ", "-", " ", Digits[scores[2] + 1]>>

\* the three lines inserted at the head of plays_log when the game is over
FinalLines(scores) ==
    <<[line |-> [emoji |-> "", style |-> "bold", label |-> "", 
                 time |-> [clock |-> "", period |-> [label |-> "", n |-> 0]],
                 text |-> ScoreText(scores)],
       raw |-> K_final, tags |-> {"score"}],
      [line |-> [emoji |-> "", style |-> "bold yellow", label |-> "",
                 time |-> [clock |-> "", period |-> [label |-> "", n |-> 0]],
                 text |-> T_FINAL],
       raw |-> K_final, tags |-> {"score"}],
      [line |-> [emoji |-> "", style |-> "", label |-> "",
                 time |-> [clock |-> "", period |-> [label |-> "", n |-> 0]],
                 text |-> << >>],
       raw |-> << >>, tags |-> {}]>>

\* the plays_log after the game-over block
Finalize(log, scores) == FinalLines(scores) \o log

HeaderLines == <<"Monitoring", "Keys", "">>

\* game["state"] = status.get("type", {}).get("state", game.get("state"))
MergedState(d, st) == IF d.state = "absent" THEN st ELSE d.state

\* if game.get("state") == "post"
IsOver(st) == st = "post"

\* if not data
NoData(d) == d = << >>

\* NoDataStatus leaving the status as it was after a good fetch
NoDataStatus_Ok == "OK"

\* self.net_status = "NO DATA"
NoDataStatus == "NO DATA"

\* refresh_data after a fetch that returned d; mounting: called from on_mount,
\* before self._timer is set.  When get_scores raises, refresh_data ends there
\* and the exception leaves the handler.
ProcessFetch(d, mounting) ==
    IF NoData(d)
    THEN /\ fetches < MaxTicks
         /\ fetches' = fetches + 1
         /\ data' = d
         /\ net_status' = NoDataStatus
         /\ last_call' = "refresh_nodata"
         /\ notified' = << >>
         /\ appended' = << >>
         /\ _timer' = IF mounting THEN "running" ELSE _timer
         /\ UNCHANGED <<sport, max_scrollback, game_state, last_play_ids,
                        last_scores, initialized, static_log, plays_log,
                        _finalized, paused, new_plays, game_over_count,
                        returned_ids>>
    ELSE IF get_scores_raises(d, sport)
    THEN /\ fetches < MaxTicks
         /\ fetches' = fetches + 1
         /\ data' = d
         /\ net_status' = "OK"
         /\ game_state' = MergedState(d, game_state)
         /\ last_call' = "refresh_raised"
         /\ notified' = << >>
         /\ appended' = << >>
         /\ UNCHANGED <<sport, max_scrollback, last_play_ids, last_scores,
                        initialized, static_log, plays_log, _finalized,
                        _timer, paused, new_plays, game_over_count,
                        returned_ids>>
    ELSE LET st     == MergedState(d, game_state)
             scores == get_scores(d, sport)
             ex     == IF sport = "nfl" THEN get_plays_nfl(d, last_play_ids)
                       ELSE get_plays_basketball(d, last_play_ids)
             over   == IsOver(st)
         IN  /\ fetches < MaxTicks
             /\ fetches' = fetches + 1
             /\ data' = d
             /\ net_status' = "OK"
             /\ game_state' = st
             /\ new_plays' = ex.new_plays
             /\ last_play_ids' = ex.last_play_ids
             /\ returned_ids' = returned_ids
                                  \cup {new_plays'[i].id : i \in 1..Len(new_plays')}
             /\ static_log' = IF ~initialized THEN static_log \o HeaderLines
                              ELSE static_log
             /\ initialized' = TRUE
             /\ appended' = IF ~initialized THEN FirstTickPlays(new_plays')
                            ELSE new_plays'
             /\ last_scores' = NewLastScores(~initialized, last_scores, scores)
             /\ LET notes == TickNotes(~initialized, new_plays', last_scores, scores)
                IN  notified' = IF over THEN Append(notes, Note("gameover", scores))
                                ELSE notes
             /\ LET kept == Trim(AppendAll(plays_log, appended', sport),
                                 MaxKeep(max_scrollback))
                IN  plays_log' = IF over THEN Finalize(kept, scores) ELSE kept
             /\ game_over_count' = IF over THEN game_over_count + 1
                                   ELSE game_over_count
             /\ _finalized' = over
             /\ _timer' = IF mounting THEN "running"
                          ELSE IF over /\ _timer # "none" THEN "paused"
                          ELSE _timer
             /\ last_call' = IF ~initialized THEN "refresh_first" ELSE "refresh_later"
             /\ UNCHANGED <<sport, max_scrollback, paused>>

\* refresh_data when fetch_json returns one of results; the fetch is made
\* only when the session is not finalized
refresh_from(results, mounting) ==
    IF _finalized
    THEN /\ last_call' = "refresh_finalized"
         /\ notified' = << >>
         /\ appended' = << >>
         /\ _timer' = IF mounting THEN "running" ELSE _timer
         /\ UNCHANGED <<sport, max_scrollback, game_state, last_play_ids,
                        last_scores, initialized, static_log, plays_log,
                        _finalized, paused, net_status, data, new_plays,
                        game_over_count, fetches, returned_ids>>
    ELSE \E d \in results : ProcessFetch(d, mounting)

\* refresh_data without the check of self._finalized
refresh_data_Unguarded(mounting) ==
    \E d \in FetchResults(sport) : ProcessFetch(d, mounting)

\* refresh_data, fetch_json returning anything it can
refresh_data(mounting) == refresh_from(FetchResults(sport), mounting)

-----------------------------------------------------------------------------
(* The application.                                                        *)

\* the view settings set by __init__ and compose
ViewInit ==
    /\ follow = TRUE
    /\ filter_mode = "all"
    /\ search_query = << >>
    /\ tabs_active = "pbp"
    /\ search_hidden = TRUE

\* no classifier call is being made alone
ClassifyIdle ==
    /\ arg_play = [text |-> << >>, type |-> << >>, scoring |-> FALSE]
    /\ arg_overrides = << >>
    /\ ret_tags = {}
    /\ ret_emoji = ""

\* _start_key_listener has not been called
ListenerIdle ==
    /\ state = [tab |-> "main", quit |-> FALSE]
    /\ stop_event = FALSE
    /\ tty_attrs = [term |-> "cooked", old |-> "none"]
    /\ listener_pc = "none"
    /\ main_pc = "none"
    /\ ch = ""

Init ==
    /\ app = "new"
    /\ sport \in {"nfl", "ncaambb"}
    /\ max_scrollback \in {SmallScrollback, FirstTickLimit + SmallScrollback}
    /\ game_state \in {"pre", "post"}
    /\ last_play_ids = {}
    /\ last_scores = <<0, 0>>
    /\ initialized = FALSE
    /\ static_log = << >>
    /\ plays_log = << >>
    /\ _finalized = FALSE
    /\ _timer = "none"
    /\ paused = FALSE
    /\ net_status = "OK"
    /\ data = << >>
    /\ new_plays = << >>
    /\ appended = << >>
    /\ notified = << >>
    /\ last_call = "none"
    /\ game_over_count = 0
    /\ fetches = 0
    /\ returned_ids = {}
    /\ ViewInit
    /\ ClassifyIdle
    /\ ListenerIdle

\* an exception that leaves a handler ends the application
AfterHandler(call) == IF call = "refresh_raised" THEN "crashed" ELSE "running"

\* on_mount: self.refresh_data(); self._timer = self.set_interval(...)
on_mount ==
    /\ app = "new"
    /\ refresh_data(TRUE)
    /\ app' = AfterHandler(last_call')
    /\ UNCHANGED <<view_vars, classify_vars, listener_vars>>

\* the interval timer fires and calls refresh_data
TimerFire ==
    /\ app = "running"
    /\ _timer = "running"
    /\ refresh_data(FALSE)
    /\ app' = AfterHandler(last_call')
    /\ UNCHANGED <<view_vars, classify_vars, listener_vars>>

\* action_pause that never resumes the timer
action_pause_NoResume ==
    /\ app = "running"
    /\ paused' = ~paused
    /\ _timer' = IF _timer = "none" THEN _timer ELSE "paused"
    /\ last_call' = "pause"
    /\ notified' = << >>
    /\ appended' = << >>
    /\ UNCHANGED <<app, sport, max_scrollback, game_state, last_play_ids,
                   last_scores, initialized, static_log, plays_log, _finalized,
                   net_status, data, new_plays, game_over_count, fetches,
                   returned_ids, view_vars, classify_vars, listener_vars>>

\* action_pause: the flag is swapped and the timer paused or resumed with it
action_pause ==
    /\ app = "running"
    /\ paused' = ~paused
    /\ _timer' = IF _timer = "none" THEN _timer
                 ELSE IF ~paused THEN "paused" ELSE "running"
    /\ last_call' = "pause"
    /\ notified' = << >>
    /\ appended' = << >>
    /\ UNCHANGED <<app, sport, max_scrollback, game_state, last_play_ids,
                   last_scores, initialized, static_log, plays_log, _finalized,
                   net_status, data, new_plays, game_over_count, fetches,
                   returned_ids, view_vars, classify_vars, listener_vars>>

action_quit ==
    /\ app = "running"
    /\ app' = "exited"
    /\ last_call' = "quit"
    /\ notified' = << >>
    /\ appended' = << >>
    /\ UNCHANGED <<sport, max_scrollback, game_state, last_play_ids,
                   last_scores, initialized, static_log, plays_log, _finalized,
                   _timer, paused, net_status, data, new_plays, game_over_count,
                   fetches, returned_ids, view_vars, classify_vars,
                   listener_vars>>

Next ==
    \/ on_mount
    \/ TimerFire
    \/ action_pause
    \/ action_quit

Spec == Init /\ [][Next]_vars

-----------------------------------------------------------------------------
(* One session: the game is in progress at 0-0 with one play, then in      *)
(* progress at 7-0 with nothing new, then over at 7-0.                      *)

\* the k-th snapshot of that session, with the play list f
EndToEndSnapshot(sp, k, f) ==
    [state |-> IF k < 3 THEN "in" ELSE "post",
     competitors |-> Competitors(IF k = 1 THEN 0 ELSE 7, 0),
     plays  |-> IF sp = "nfl" THEN << >> ELSE f,
     drives |-> IF sp = "nfl" THEN f ELSE << >>]

\* what fetch_json returns at the next fetch of that session: first any one
\* play of the game, afterwards that play again or no play
EndToEndFetch ==
    IF fetches = 0
    THEN {EndToEndSnapshot(sport, 1, Window(i, i)) : i \in 1..MaxId}
    ELSE {EndToEndSnapshot(sport, fetches + 1, f) :
             f \in {<< >>} \cup {Window(i, i) : i \in last_play_ids}}

EndToEnd_on_mount ==
    /\ app = "new"
    /\ refresh_from(EndToEndFetch, TRUE)
    /\ app' = AfterHandler(last_call')
    /\ UNCHANGED <<view_vars, classify_vars, listener_vars>>

EndToEnd_TimerFire ==
    /\ app = "running"
    /\ _timer = "running"
    /\ refresh_from(EndToEndFetch, FALSE)
    /\ app' = AfterHandler(last_call')
    /\ UNCHANGED <<view_vars, classify_vars, listener_vars>>

NextEndToEnd ==
    \/ EndToEnd_on_mount
    \/ EndToEnd_TimerFire
    \/ action_pause
    \/ action_quit

SpecEndToEnd == Init /\ [][NextEndToEnd]_vars

-----------------------------------------------------------------------------
(* The key bindings and the search input of GameMonitorApp.                *)

\* what a key handler leaves alone besides the view settings
SessionUnchanged ==
    UNCHANGED <<app, sport, max_scrollback, game_state, last_play_ids,
                last_scores, initialized, static_log, plays_log, _finalized,
                _timer, paused, net_status, data, new_plays, game_over_count,
                fetches, returned_ids, classify_vars, listener_vars>>

\* a key handler that makes no notify() call and appends no play
ViewHandler(name) ==
    /\ app = "running"
    /\ last_call' = name
    /\ notified' = << >>
    /\ appended' = << >>
    /\ SessionUnchanged

action_toggle_view ==
    /\ ViewHandler("toggle_view")
    /\ tabs_active' = IF tabs_active = "pbp" THEN "stats" ELSE "pbp"
    /\ UNCHANGED <<follow, filter_mode, search_query, search_hidden>>

action_follow ==
    /\ ViewHandler("follow")
    /\ follow' = ~follow
    /\ UNCHANGED <<filter_mode, search_query, tabs_active, search_hidden>>

action_focus_search ==
    /\ ViewHandler("focus_search")
    /\ search_hidden' = FALSE
    /\ UNCHANGED <<follow, filter_mode, search_query, tabs_active>>

\* search.value = "" runs _search_changed with the empty value
action_clear_search ==
    /\ ViewHandler("clear_search")
    /\ search_query' = << >>
    /\ search_hidden' = TRUE
    /\ UNCHANGED <<follow, filter_mode, tabs_active>>

action_filter_all ==
    /\ ViewHandler("filter")
    /\ filter_mode' = "all"
    /\ UNCHANGED <<follow, search_query, tabs_active, search_hidden>>

action_filter_scores ==
    /\ ViewHandler("filter")
    /\ filter_mode' = "scores"
    /\ UNCHANGED <<follow, search_query, tabs_active, search_hidden>>

action_filter_penalties ==
    /\ ViewHandler("filter")
    /\ filter_mode' = "penalties"
    /\ UNCHANGED <<follow, search_query, tabs_active, search_hidden>>

action_filter_turnovers ==
    /\ ViewHandler("filter")
    /\ filter_mode' = "turnovers"
    /\ UNCHANGED <<follow, search_query, tabs_active, search_hidden>>

IsSpace(c) == c = " "

RECURSIVE LStrip(_)
LStrip(s) == IF s # << >> /\ IsSpace(Head(s)) THEN LStrip(Tail(s)) ELSE s

RECURSIVE RStrip(_)
RStrip(s) ==
    IF s # << >> /\ IsSpace(s[Len(s)]) THEN RStrip(SubSeq(s, 1, Len(s) - 1))
    ELSE s

\* str.strip()
Strip(s) == RStrip(LStrip(s))

\* what the user types into the search input
SearchValues == {<<" ">>, <<" ", "F", "o", "u", "l">>}

\* the Input.Changed handler of the search input, shown by action_focus_search
_search_changed ==
    /\ ViewHandler("search")
    /\ ~search_hidden
    /\ \E value \in SearchValues : search_query' = Lower(Strip(value))
    /\ UNCHANGED <<follow, filter_mode, tabs_active, search_hidden>>

DefaultMaxPlays == 500

\* CONFIG["max_plays"]
max_plays == SmallMaxPlays

\* int((CONFIG or {}).get("max_plays", 500) or 500)
MaxLines(cfg) == IF cfg = 0 THEN DefaultMaxPlays ELSE cfg

\* ItemOk without the test of the search query
ItemOk_AnyText(item, mode, query) ==
    IF mode = "scores" /\ "score" \notin item.tags THEN FALSE
    ELSE IF mode = "penalties" /\ "penalty" \notin item.tags THEN FALSE
    ELSE IF mode = "turnovers" /\ "turnover" \notin item.tags THEN FALSE
    ELSE TRUE

\* ok(item) of _filtered_lines
ItemOk(item, mode, query) ==
    IF mode = "scores" /\ "score" \notin item.tags THEN FALSE
    ELSE IF mode = "penalties" /\ "penalty" \notin item.tags THEN FALSE
    ELSE IF mode = "turnovers" /\ "turnover" \notin item.tags THEN FALSE
    ELSE IF query # << >> /\ ~Contains(query, item.raw) THEN FALSE
    ELSE TRUE

\* [i["line"] for i in self.plays_log if ok(i)][:max_lines]
_filtered_lines(log, mode, query, cfg) ==
    LET kept == SelectSeq(log, LAMBDA item : ItemOk(item, mode, query))
    IN  FirstN([k \in 1..Len(kept) |-> kept[k].line], MaxLines(cfg))

\* the snapshots fetched while the view is exercised: the game at 0-0 in any
\* lifecycle state, and in progress with a null away score
ViewSnapshots(sp) ==
    {[state |-> st, competitors |-> c,
      plays  |-> IF sp = "nfl" THEN << >> ELSE Window(1, 3),
      drives |-> IF sp = "nfl" THEN Window(1, 3) ELSE << >>] :
        st \in {"pre", "in", "post", "absent"}, c \in {Competitors(0, 0)}}
    \cup
    {[state |-> "in",
      competitors |-> <<[homeAway |-> "home", score |-> JsonString(<<"0">>)],
                        [homeAway |-> "away", score |-> JsonNull]>>,
      plays  |-> IF sp = "nfl" THEN << >> ELSE Window(1, 3),
      drives |-> IF sp = "nfl" THEN Window(1, 3) ELSE << >>]}

NflViewSnapshots == ViewSnapshots("nfl")
BasketballViewSnapshots == ViewSnapshots("ncaambb")

ViewFetch ==
    {<< >>} \cup (IF sport = "nfl" THEN NflViewSnapshots
                  ELSE BasketballViewSnapshots)

View_on_mount ==
    /\ app = "new"
    /\ refresh_from(ViewFetch, TRUE)
    /\ app' = AfterHandler(last_call')
    /\ UNCHANGED <<view_vars, classify_vars, listener_vars>>

View_TimerFire ==
    /\ app = "running"
    /\ _timer = "running"
    /\ refresh_from(ViewFetch, FALSE)
    /\ app' = AfterHandler(last_call')
    /\ UNCHANGED <<view_vars, classify_vars, listener_vars>>

InitView ==
    /\ Init
    /\ max_scrollback = SmallScrollback

NextView ==
    \/ View_on_mount
    \/ View_TimerFire
    \/ action_pause
    \/ action_quit
    \/ action_toggle_view
    \/ action_follow
    \/ action_focus_search
    \/ action_clear_search
    \/ action_filter_all
    \/ action_filter_scores
    \/ action_filter_penalties
    \/ action_filter_turnovers
    \/ _search_changed

SpecView == InitView /\ [][NextView]_vars

-----------------------------------------------------------------------------
(* Sessions whose snapshots carry malformed records.                       *)

\* the "score" entries tried: "0", "1", a string that is no number, null, and
\* no entry
ScoreValues ==
    {JsonString(<<"0">>), JsonString(<<"1">>), JsonString(<<"-", "-">>),
     JsonNull, JsonMissing}

\* a play record that has an identifier and nothing else
BarePlay(i) ==
    [id |-> i, text |-> << >>, clock |-> "", period |-> 0, down |-> "",
     scoringPlay |-> FALSE, type |-> << >>, team |-> ""]

\* play lists with a record without identifier and a bare record between
\* well-formed ones
MalformedFeeds ==
    {<<RawPlay(1), RawPlay(0), BarePlay(2)>>,
     <<RawPlay(1), RawPlay(0), BarePlay(2), RawPlay(0), RawPlay(3)>>}

MalformedSnapshots(sp) ==
    {[state |-> st,
      competitors |-> <<[homeAway |-> "home", score |-> h],
                        [homeAway |-> "away", score |-> a]>>,
      plays  |-> IF sp = "nfl" THEN << >> ELSE f,
      drives |-> IF sp = "nfl" THEN f ELSE << >>] :
        st \in {"in", "post"}, h \in ScoreValues, a \in ScoreValues,
        f \in MalformedFeeds}

NflMalformedSnapshots == MalformedSnapshots("nfl")
BasketballMalformedSnapshots == MalformedSnapshots("ncaambb")

MalformedFetch ==
    {<< >>} \cup (IF sport = "nfl" THEN NflMalformedSnapshots
                  ELSE BasketballMalformedSnapshots)

Malformed_on_mount ==
    /\ app = "new"
    /\ refresh_from(MalformedFetch, TRUE)
    /\ app' = AfterHandler(last_call')
    /\ UNCHANGED <<view_vars, classify_vars, listener_vars>>

Malformed_TimerFire ==
    /\ app = "running"
    /\ _timer = "running"
    /\ refresh_from(MalformedFetch, FALSE)
    /\ app' = AfterHandler(last_call')
    /\ UNCHANGED <<view_vars, classify_vars, listener_vars>>

NextMalformed ==
    \/ Malformed_on_mount
    \/ Malformed_TimerFire
    \/ action_pause
    \/ action_quit

SpecMalformed == InitView /\ [][NextMalformed]_vars

-----------------------------------------------------------------------------
(* The play extractors alone, on any seen-id set and any play list.        *)

\* the play lists tried: records with or without an identifier, repeated
\* identifiers included, the scoring flag varying between occurrences
DedupePlays ==
    {[RawPlay(i) EXCEPT !.scoringPlay = b] : i \in 0..MaxDedupeId, b \in BOOLEAN}

DedupeFeeds == UNION {[1..n -> DedupePlays] : n \in 0..MaxFeedLen}

\* the play list the sport's extractor reads from the snapshot
FeedOf(d, sp) == IF sp = "nfl" THEN d.drives ELSE d.plays

InitDedupe ==
    /\ app = "extract"
    /\ sport \in {"nfl", "ncaambb"}
    /\ last_play_ids \in SUBSET (1..MaxDedupeId)
    /\ \E f \in DedupeFeeds :
          data = [state |-> "in", competitors |-> Competitors(0, 0),
                  plays  |-> IF sport = "nfl" THEN << >> ELSE f,
                  drives |-> IF sport = "nfl" THEN f ELSE << >>]
    /\ max_scrollback = SmallScrollback
    /\ game_state = "in"
    /\ last_scores = <<0, 0>>
    /\ initialized = FALSE
    /\ static_log = << >>
    /\ plays_log = << >>
    /\ _finalized = FALSE
    /\ _timer = "none"
    /\ paused = FALSE
    /\ net_status = "OK"
    /\ new_plays = << >>
    /\ appended = << >>
    /\ notified = << >>
    /\ last_call = "none"
    /\ game_over_count = 0
    /\ fetches = 0
    /\ returned_ids = {}
    /\ ViewInit
    /\ ClassifyIdle
    /\ ListenerIdle

\* new_plays = get_plays_nfl(data, last_play_ids), or get_plays_basketball
Extract ==
    /\ app = "extract"
    /\ app' = "extracted"
    /\ LET ex == IF sport = "nfl" THEN get_plays_nfl(data, last_play_ids)
                 ELSE get_plays_basketball(data, last_play_ids)
       IN  /\ new_plays' = ex.new_plays
           /\ last_play_ids' = ex.last_play_ids
           /\ returned_ids' = {ex.new_plays[i].id : i \in 1..Len(ex.new_plays)}
    /\ last_call' = "extract"
    /\ UNCHANGED <<sport, max_scrollback, game_state, last_scores, initialized,
                   static_log, plays_log, _finalized, _timer, paused,
                   net_status, data, appended, notified, game_over_count,
                   fetches, view_vars, classify_vars, listener_vars>>

NextDedupe == Extract

SpecDedupe == InitDedupe /\ [][NextDedupe]_vars

-----------------------------------------------------------------------------
(* The classifier alone: _play_tags and _play_emoji on any play.           *)

\* the words the play texts tried are made of
Fragments ==
    <<<<"T", "o", "u", "c", "h", "d", "o", "w", "n">>,
      <<"I", "N", "T", "E", "R", "C", "E", "P", "T", "E", "D">>,
      <<"f", "u", "m", "b", "l", "e">>,
      <<"P", "e", "n", "a", "l", "t", "y">>, <<"F", "O", "U", "L">>,
      <<"p", "u", "n", "t">>, <<"S", "a", "c", "k">>,
      <<"t", "i", "m", "e", "o", "u", "t">>, <<"M", "I", "S", "S">>,
      <<"p", "a", "s", "s">>, <<"s", "t", "e", "a", "l">>,
      <<"T", "u", "r", "n", "o", "v", "e", "r">>, <<"3">>, <<"p", "t">>,
      <<"r", "u", "s", "h">>>>

T_touchdown_pass == 
    <<"1", "2", "-", "y", "a", "r", "d", " ", "t", "o", "u", "c", "h", "d", "o", "w", "n", " ", "p", "a", "s", "s">>
T_missed_three == 
    <<"m", "i", "s", "s", "e", "d", " ", "t", "h", "r", "e", "e", " ", "p", "o", "i", "n", "t", " ", "j", "u", "m", "p", "e", "r">>

\* the type labels tried
TypeLabels ==
    {<<>>, <<"P", "a", "s", "s">>, <<"P", "e", "n", "a", "l", "t", "y">>,
     <<"R", "u", "n">>, <<"S", "A", "C", "K">>,
     <<"I", "n", "t", "e", "r", "c", "e", "p", "t", "i", "o", "n">>,
     <<"P", "u", "n", "t">>, <<"T", "i", "m", "e", "o", "u", "t">>}

\* str.upper() on one character
UpperChar(c) ==
    IF \E i \in 1..Len(LowerChars) : LowerChars[i] = c
    THEN UpperChars[CHOOSE i \in 1..Len(LowerChars) : LowerChars[i] = c]
    ELSE c

\* str.upper()
Upper(s) == [i \in 1..Len(s) |-> UpperChar(s[i])]

RECURSIVE FragmentSets(_)
\* the sets of at most n fragments
FragmentSets(n) ==
    IF n = 0 THEN {{}}
    ELSE LET smaller == FragmentSets(n - 1)
         IN  smaller \cup {S \cup {i} : S \in smaller, i \in 1..Len(Fragments)}

RECURSIVE JoinFrom(_, _)
\* the fragments of S from the i-th on, each preceded by a space
JoinFrom(S, i) ==
    IF i > Len(Fragments) THEN << >>
    ELSE (IF i \in S THEN <<" ">> \o Fragments[i] ELSE << >>) \o JoinFrom(S, i + 1)

\* the play texts tried: up to MaxFragments words as written, each word alone
\* in upper case, and the two texts of the documented examples
ClassifyTexts ==
    {JoinFrom(S, 1) : S \in FragmentSets(MaxFragments)}
    \cup {Upper(JoinFrom(S, 1)) : S \in FragmentSets(1)}
    \cup {T_touchdown_pass, T_missed_three}

\* the play dicts tried
ClassifyPlays ==
    {[text |-> t, type |-> y, scoring |-> b] :
        t \in ClassifyTexts, y \in TypeLabels, b \in BOOLEAN}

\* the values of CONFIG["emoji_overrides"] tried: none; entries without needle
\* or without emoji before a usable one; two usable ones
OverrideConfigs ==
    {<< >>,
     <<[needle |-> << >>, emoji |-> "fire"],
       [needle |-> <<"s", "a", "c", "k">>, emoji |-> ""],
       [needle |-> <<"T", "o", "u", "c", "h", "d", "o", "w", "n">>, emoji |-> "fire"]>>,
     <<[needle |-> <<"P", "A", "S", "S">>, emoji |-> "star"],
       [needle |-> <<"p", "u", "n", "t">>, emoji |-> "boot"]>>}

InitClassify ==
    /\ app = "classify"
    /\ sport \in {"nfl", "ncaambb"}
    /\ arg_play \in ClassifyPlays
    /\ arg_overrides \in OverrideConfigs
    /\ ret_tags = {}
    /\ ret_emoji = ""
    /\ max_scrollback = SmallScrollback
    /\ game_state = "in"
    /\ last_play_ids = {}
    /\ last_scores = <<0, 0>>
    /\ initialized = FALSE
    /\ static_log = << >>
    /\ plays_log = << >>
    /\ _finalized = FALSE
    /\ _timer = "none"
    /\ paused = FALSE
    /\ net_status = "OK"
    /\ data = << >>
    /\ new_plays = << >>
    /\ appended = << >>
    /\ notified = << >>
    /\ last_call = "none"
    /\ game_over_count = 0
    /\ fetches = 0
    /\ returned_ids = {}
    /\ ViewInit
    /\ ListenerIdle

\* tags = _play_tags(play, sport); emoji = _play_emoji(play, sport)
Classify ==
    /\ app = "classify"
    /\ app' = "classified"
    /\ ret_tags' = _play_tags(arg_play, sport)
    /\ ret_emoji' = _play_emoji_with(arg_overrides, arg_play, sport)
    /\ last_call' = "classify"
    /\ UNCHANGED <<sport, max_scrollback, game_state, last_play_ids,
                   last_scores, initialized, static_log, plays_log, _finalized,
                   _timer, paused, net_status, data, new_plays, appended,
                   notified, game_over_count, fetches, returned_ids,
                   arg_play, arg_overrides, view_vars, listener_vars>>

NextClassify == Classify

SpecClassify == InitClassify /\ [][NextClassify]_vars

-----------------------------------------------------------------------------
(* The key listener thread of _start_key_listener and the loop it shares   *)
(* state with.                                                             *)

\* the characters sys.stdin.read(1) gives: tab, t, T, q, Q, another key, and
\* the empty string at end of input
Keys == {"\t", "t", "T", "q", "Q", "x", ""}

\* ch in ("\t", "t", "T")
TabKeys == {"\t", "t", "T"}

\* ch in ("q", "Q")
QuitKeys == {"q", "Q"}

\* the attributes the terminal can be found in
TermModes == {"cooked", "raw"}

InitListener ==
    /\ app = "listener"
    /\ sport = "nfl"
    /\ max_scrollback = SmallScrollback
    /\ game_state = "in"
    /\ last_play_ids = {}
    /\ last_scores = <<0, 0>>
    /\ initialized = FALSE
    /\ static_log = << >>
    /\ plays_log = << >>
    /\ _finalized = FALSE
    /\ _timer = "none"
    /\ paused = FALSE
    /\ net_status = "OK"
    /\ data = << >>
    /\ new_plays = << >>
    /\ appended = << >>
    /\ notified = << >>
    /\ last_call = "none"
    /\ game_over_count = 0
    /\ fetches = 0
    /\ returned_ids = {}
    /\ ViewInit
    /\ ClassifyIdle
    /\ state = [tab |-> "main", quit |-> FALSE]
    /\ stop_event = FALSE
    /\ tty_attrs \in [term : TermModes, old : {"none"}]
    /\ listener_pc = "none"
    /\ main_pc = "none"
    /\ ch = ""

\* what no step of the listener or of the loop touches
ListenerFrame ==
    UNCHANGED <<app, sport, max_scrollback, game_state, last_play_ids,
                last_scores, initialized, static_log, plays_log, _finalized,
                _timer, paused, net_status, data, new_plays, appended,
                notified, last_call, game_over_count, fetches, returned_ids,
                view_vars, classify_vars>>

\* _start_key_listener: None when stdin is no terminal; otherwise the
\* attributes are saved, the terminal is put in cbreak mode and the thread is
\* started
_start_key_listener ==
    /\ app = "listener"
    /\ listener_pc = "none"
    /\ \E isatty \in BOOLEAN :
          IF ~isatty
          THEN /\ listener_pc' = "absent"
               /\ UNCHANGED tty_attrs
          ELSE /\ tty_attrs' = [term |-> "cbreak", old |-> tty_attrs.term]
               /\ listener_pc' = "check"
    /\ UNCHANGED <<state, stop_event, main_pc, ch>>
    /\ ListenerFrame

\* while not stop_event.is_set()
ListenerCheck ==
    /\ listener_pc = "check"
    /\ listener_pc' = IF stop_event THEN "finally" ELSE "select"
    /\ UNCHANGED <<state, stop_event, tty_attrs, main_pc, ch>>
    /\ ListenerFrame

\* select.select with its 0.1 s timeout: if not r: continue
ListenerSelect ==
    /\ listener_pc = "select"
    /\ \E ready \in BOOLEAN :
          listener_pc' = IF ready THEN "read" ELSE "check"
    /\ UNCHANGED <<state, stop_event, tty_attrs, main_pc, ch>>
    /\ ListenerFrame

\* ch = sys.stdin.read(1)
ListenerRead ==
    /\ listener_pc = "read"
    /\ ch' \in Keys
    /\ listener_pc' = "dispatch"
    /\ UNCHANGED <<state, stop_event, tty_attrs, main_pc>>
    /\ ListenerFrame

\* select.select or sys.stdin.read raises: the try block is left
ListenerRaise ==
    /\ listener_pc \in {"select", "read"}
    /\ listener_pc' = "finally"
    /\ UNCHANGED <<state, stop_event, tty_attrs, main_pc, ch>>
    /\ ListenerFrame

\* ListenerDispatch whose quit branch sets the flag and nothing else
ListenerDispatch_FlagOnly ==
    /\ listener_pc = "dispatch"
    /\ IF ch \in TabKeys
       THEN /\ state' = [state EXCEPT
                            !.tab = IF state.tab = "main" THEN "stats" ELSE "main"]
            /\ listener_pc' = "check"
       ELSE IF ch \in QuitKeys
       THEN /\ state' = [state EXCEPT !.quit = TRUE]
            /\ listener_pc' = "check"
       ELSE /\ UNCHANGED state
            /\ listener_pc' = "check"
    /\ UNCHANGED <<stop_event, tty_attrs, main_pc, ch>>
    /\ ListenerFrame

\* the if/elif on ch: the view indicator is swapped, or the quit flag is set
\* (stop_event.set() is the next statement), or the key is ignored
ListenerDispatch ==
    /\ listener_pc = "dispatch"
    /\ IF ch \in TabKeys
       THEN /\ state' = [state EXCEPT
                            !.tab = IF state.tab = "main" THEN "stats" ELSE "main"]
            /\ listener_pc' = "check"
       ELSE IF ch \in QuitKeys
       THEN /\ state' = [state EXCEPT !.quit = TRUE]
            /\ listener_pc' = "set_stop"
       ELSE /\ UNCHANGED state
            /\ listener_pc' = "check"
    /\ UNCHANGED <<stop_event, tty_attrs, main_pc, ch>>
    /\ ListenerFrame

\* stop_event.set()
ListenerSetStop ==
    /\ listener_pc = "set_stop"
    /\ stop_event' = TRUE
    /\ listener_pc' = "check"
    /\ UNCHANGED <<state, tty_attrs, main_pc, ch>>
    /\ ListenerFrame

\* finally: termios.tcsetattr(fd, termios.TCSADRAIN, old); run() returns
ListenerFinally ==
    /\ listener_pc = "finally"
    /\ tty_attrs' = [tty_attrs EXCEPT !.term = tty_attrs.old]
    /\ listener_pc' = "done"
    /\ UNCHANGED <<state, stop_event, main_pc, ch>>
    /\ ListenerFrame

\* one check point of the loop that reads the shared dict: it leaves on the
\* quit flag, otherwise it shows the view the indicator names
MainRead ==
    /\ app = "listener"
    /\ listener_pc # "none"
    /\ main_pc # "exited"
    /\ main_pc' = IF state.quit THEN "exited" ELSE state.tab
    /\ UNCHANGED <<state, stop_event, tty_attrs, listener_pc, ch>>
    /\ ListenerFrame

\* the steps of the thread
ListenerStep ==
    \/ ListenerCheck
    \/ ListenerSelect
    \/ ListenerRead
    \/ ListenerRaise
    \/ ListenerDispatch
    \/ ListenerSetStop
    \/ ListenerFinally

NextListener ==
    \/ _start_key_listener
    \/ ListenerCheck
    \/ ListenerSelect
    \/ ListenerRead
    \/ ListenerRaise
    \/ ListenerDispatch
    \/ ListenerSetStop
    \/ ListenerFinally
    \/ MainRead

\* the thread, once started, keeps being scheduled
SpecListener == InitListener /\ [][NextListener]_vars /\ WF_vars(ListenerStep)

-----------------------------------------------------------------------------
(* Sessions that are mounted, whose timer fires while it runs, whose user   *)
(* never leaves the timer paused and never quits, and whose fetches all     *)
(* return a finished game from some fetch on.                               *)

\* the snapshots: in progress or over, at 0-0, the feed up to some play
LiveSnapshots(sp) ==
    {[state |-> st, competitors |-> Competitors(0, 0),
      plays  |-> IF sp = "nfl" THEN << >> ELSE Window(1, hi),
      drives |-> IF sp = "nfl" THEN Window(1, hi) ELSE << >>] :
        st \in {"in", "post"}, hi \in 0..MaxFeedLen}

\* what fetch_json returns: anything, a failure included, until the last
\* fetch the session makes, which returns a finished game
LiveFetch ==
    IF fetches + 1 < MaxTicks
    THEN {<< >>} \cup LiveSnapshots(sport)
    ELSE {d \in LiveSnapshots(sport) : d.state = "post"}

Live_on_mount ==
    /\ app = "new"
    /\ refresh_from(LiveFetch, TRUE)
    /\ app' = AfterHandler(last_call')
    /\ UNCHANGED <<view_vars, classify_vars, listener_vars>>

Live_TimerFire ==
    /\ app = "running"
    /\ _timer = "running"
    /\ refresh_from(LiveFetch, FALSE)
    /\ app' = AfterHandler(last_call')
    /\ UNCHANGED <<view_vars, classify_vars, listener_vars>>

NextLive ==
    \/ Live_on_mount
    \/ Live_TimerFire
    \/ action_pause

\* the application is mounted; a timer that is resumed again and again fires
\* (a tick that fell due while the timer was paused is delivered on resume);
\* a paused timer is resumed
SpecLive ==
    /\ InitView
    /\ [][NextLive]_vars
    /\ WF_vars(Live_on_mount)
    /\ SF_vars(Live_TimerFire)
    /\ WF_vars(paused /\ action_pause)

-----------------------------------------------------------------------------
(* Claims.                                                                 *)

\* the positions of plays whose record carries an identifier that is not in
\* ids and does not occur earlier in plays
NewPositions(plays, ids) ==
    {i \in 1..Len(plays) :
        /\ plays[i].id # 0
        /\ plays[i].id \notin ids
        /\ \A j \in 1..(i - 1) : plays[j].id # plays[i].id}

\* the k-th smallest element of a set of positions
KthOf(S, k) == CHOOSE i \in S : Cardinality({j \in S : j <= i}) = k

\* out is the plays of plays at the positions in pos, in increasing position
IsSelection(out, plays, pos) ==
    /\ Len(out) = Cardinality(pos)
    /\ \A k \in 1..Len(out) :
          LET play == plays[KthOf(pos, k)]
          IN  /\ out[k].id = play.id
              /\ out[k].text = play.text
              /\ out[k].scoring = play.scoringPlay

\* C1: an extractor call on (P, S) returns exactly the plays of P whose
\* identifier is not in S, each identifier once (its first occurrence), in the
\* order of P, and leaves the seen set equal to S united with the identifiers
\* returned.
C1_Dedupe ==
    [][(app = "extract" /\ app' = "extracted") =>
         /\ IsSelection(new_plays', FeedOf(data, sport),
                        NewPositions(FeedOf(data, sport), last_play_ids))
         /\ last_play_ids' =
               last_play_ids \cup {new_plays'[k].id : k \in 1..Len(new_plays')}]_vars

\* an extraction returned two plays out of a list of three that repeats the
\* identifier of one of them
C1_Witness ==
    /\ app = "extracted"
    /\ Len(new_plays) = 2
    /\ \E i, j \in 1..Len(FeedOf(data, sport)) :
          /\ i < j
          /\ FeedOf(data, sport)[i].id = FeedOf(data, sport)[j].id
          /\ FeedOf(data, sport)[i].id \in returned_ids

\* the step is a call of refresh_data that fetched a non-empty snapshot
GoodTick == fetches' = fetches + 1 /\ last_call' \in {"refresh_first", "refresh_later"}

\* the step is a call of refresh_data whose fetch returned nothing
FailedTick == fetches' = fetches + 1 /\ last_call' = "refresh_nodata"

\* the identifiers of a list of plays
IdsOf(plays) == {plays[k].id : k \in 1..Len(plays)}

\* the notifications of a list that are of one of the kinds
OfKind(notes, kinds) == SelectSeq(notes, LAMBDA n : n.kind \in kinds)

\* C2: in a session the seen-id set only grows, and an extraction never
\* returns as new an identifier an earlier extraction returned.
C2_SeenOnlyGrows ==
    [][/\ last_play_ids \subseteq last_play_ids'
       /\ returned_ids' \subseteq last_play_ids'
       /\ GoodTick => IdsOf(new_plays') \cap returned_ids = {}]_vars

\* a third fetch whose snapshot repeats plays returned earlier next to new ones
C2_Witness ==
    /\ fetches = 3
    /\ last_call = "refresh_later"
    /\ new_plays # << >>
    /\ Len(FeedOf(data, sport)) > Len(new_plays)
    /\ returned_ids # IdsOf(new_plays)

\* C3 as stated: after every tick the display buffer holds at most
\* max_scrollback entries.
C3_BufferBounded == Len(plays_log) <= MaxKeep(max_scrollback)

\* the state variables of the session a tick works on
Session == <<game_state, last_play_ids, last_scores, initialized, static_log,
             plays_log, _finalized, game_over_count, returned_ids>>

\* C4: the "Game Over" notification fires once, on the tick whose lifecycle
\* state is post, and from then on no call of refresh_data (timer firings after
\* pause and resume included) changes the session or notifies.
C4_GameOverOnce ==
    [][/\ game_over_count' = (IF _finalized' THEN 1 ELSE 0)
       /\ game_over_count' # game_over_count =>
             /\ GoodTick
             /\ game_state' = "post"
             /\ Len(OfKind(notified', {"gameover"})) = 1
       /\ _finalized =>
             /\ Session' = Session
             /\ fetches' = fetches
             /\ notified' = << >>]_vars

\* the game ended on a later tick, and the timer, resumed by the user, has
\* called refresh_data again
C4_Witness ==
    /\ _finalized
    /\ fetches >= 2
    /\ last_call = "refresh_finalized"
    /\ _timer = "running"
    /\ ~paused

\* C5 as stated: no notification of any kind on the first tick.
C5_NoFirstTickNotification == last_call = "refresh_first" => notified = << >>

\* C5, amended: the first tick fires no scoring-play and no score notification;
\* it fires the game-over notification exactly when its lifecycle state is post.
C5_FirstTickOnlyGameOver ==
    last_call = "refresh_first" =>
        /\ OfKind(notified, {"play", "away", "home"}) = << >>
        /\ Len(notified) = (IF game_state = "post" THEN 1 ELSE 0)

\* a first tick with a scoring play and a score that is not (0, 0), and no
\* notification
C5_Witness ==
    /\ last_call = "refresh_first"
    /\ \E k \in 1..Len(new_plays) : new_plays[k].scoring
    /\ last_scores = <<1, 1>>
    /\ notified = << >>

Min(a, b) == IF a <= b THEN a ELSE b

\* the lines the game-over block put at the head of the buffer
FinalOffset == IF game_state = "post" THEN Len(FinalLines(last_scores)) ELSE 0

\* the buffer, below the game-over lines, starts with the entries of the plays
\* shown, the newest first, as far as max_scrollback lets them in
HeadsBuffer(shown) ==
    \A j \in 1..Min(Len(shown), MaxKeep(max_scrollback)) :
        plays_log[FinalOffset + j] = BuildEntry(shown[Len(shown) + 1 - j], sport)

\* C6: on the first tick a snapshot with n unseen plays has exactly min(n, 10)
\* plays appended to the display buffer: the last min(n, 10) of the snapshot,
\* in feed order.
C6_FirstTickLastTen ==
    last_call = "refresh_first" =>
        LET n == Len(new_plays)
            m == Min(n, 10)
        IN  /\ IdsOf(new_plays) = IdsOf(FeedOf(data, sport))
            /\ Len(appended) = m
            /\ \A k \in 1..m : appended[k] = new_plays[n - m + k]
            /\ HeadsBuffer(appended)
            /\ Len(plays_log) = FinalOffset + Min(m, MaxKeep(max_scrollback))

\* a first tick with more than 10 unseen plays, all 10 surfaced in the buffer
C6_Witness ==
    /\ last_call = "refresh_first"
    /\ Len(new_plays) > 10
    /\ Len(appended) = 10
    /\ Len(plays_log) = 10
    /\ plays_log[10] = BuildEntry(new_plays[Len(new_plays) - 9], sport)

\* the kinds of a list of notifications
KindsOf(notes) == [k \in 1..Len(notes) |-> notes[k].kind]

\* delta(previous, current) as the claim states it
ClaimedDelta(prev, cur) ==
    IF cur[1] > prev[1] THEN <<"away">>
    ELSE IF cur[2] > prev[2] THEN <<"home">>
    ELSE << >>

\* C7: on a successful tick after the first the score notification is decided
\* by (previous pair, current pair) alone: away if the away score rose, else
\* home if the home score rose, else none; it carries the current pair.
C7_ScoreDelta ==
    [][(GoodTick /\ last_call' = "refresh_later") =>
          LET cur  == get_scores(data', sport)
              sent == OfKind(notified', {"away", "home"})
          IN  /\ KindsOf(sent) = ClaimedDelta(last_scores, cur)
              /\ \A k \in 1..Len(sent) : <<sent[k].away, sent[k].home>> = cur
              /\ KindsOf(ScoreNotes(<<0, 0>>, <<1, 0>>)) = <<"away">>
              /\ KindsOf(ScoreNotes(<<0, 0>>, <<0, 1>>)) = <<"home">>
              /\ KindsOf(ScoreNotes(<<2, 3>>, <<2, 4>>)) = <<"home">>
              /\ KindsOf(ScoreNotes(<<0, 0>>, <<0, 0>>)) = << >>]_vars

\* a later tick without new plays on which both scores are 1 and exactly the
\* away notification fired
C7_Witness ==
    /\ last_call = "refresh_later"
    /\ new_plays = << >>
    /\ game_state = "in"
    /\ notified = <<Note("away", <<1, 1>>)>>

\* C8: a tick whose fetch fails or returns an empty snapshot changes only the
\* connectivity status (to NO DATA): the seen ids, the last scores, the buffer,
\* the header log, the flags and the lifecycle state stay, nothing is notified,
\* and the session is still running.
C8_FailedTickFrame ==
    [][FailedTick =>
          /\ Session' = Session
          /\ notified' = << >>
          /\ net_status' = "NO DATA"
          /\ ~_finalized'
          /\ app' = "running"
          /\ _timer' = (IF app = "new" THEN "running" ELSE _timer)
          /\ paused' = paused]_vars

\* a failed tick in a session that has shown plays
C8_Witness ==
    /\ last_call = "refresh_nodata"
    /\ net_status = "NO DATA"
    /\ initialized
    /\ plays_log # << >>
    /\ last_scores # <<0, 0>>

\* C9: on a successful tick after the first every new play is appended to the
\* buffer, and the play notifications are exactly one per new scoring play,
\* each carrying the tick's score pair.
C9_NewPlaysShownAndNotified ==
    last_call = "refresh_later" =>
        LET sent    == OfKind(notified, {"play"})
            scoring == {k \in 1..Len(new_plays) : new_plays[k].scoring}
            cur     == get_scores(data, sport)
        IN  /\ appended = new_plays
            /\ HeadsBuffer(new_plays)
            /\ Len(sent) = Cardinality(scoring)
            /\ \A k \in 1..Len(sent) : <<sent[k].away, sent[k].home>> = cur
            /\ \A k \in 1..Len(notified) :
                  notified[k].kind = "play" => k <= Len(sent)

\* a later tick with a scoring and a non-scoring new play and a score
C9_Witness ==
    /\ last_call = "refresh_later"
    /\ \E k \in 1..Len(new_plays) : new_plays[k].scoring
    /\ \E k \in 1..Len(new_plays) : ~new_plays[k].scoring
    /\ Len(OfKind(notified, {"play"})) = 1
    /\ notified[1] = Note("play", <<0, 1>>)

\* C10: every successful tick, the first included, leaves the stored score
\* pair equal to the pair of its snapshot, and nothing else changes it: the
\* next comparison is against the preceding successful tick's pair.
C10_LastScoresFollow ==
    [][IF GoodTick THEN last_scores' = get_scores(data', sport)
       ELSE last_scores' = last_scores]_vars

\* the third fetch of a session is a successful later tick without new plays
\* that moves the home score to (1, 1) and reports it
C10_Witness ==
    /\ fetches = 3
    /\ last_call = "refresh_later"
    /\ last_scores = <<1, 1>>
    /\ new_plays = << >>
    /\ notified = <<Note("home", <<1, 1>>)>>
    /\ ~initialized \/ static_log = HeaderLines

\* C11: in the session whose snapshots are (in, 0-0, one play), (in, 7-0, no
\* new play), (post, 7-0): the first tick shows the play and notifies nothing,
\* the second notifies the away score once and nothing else, the third notifies
\* the game over once and nothing else, and no tick is processed after it.
C11_EndToEnd ==
    /\ fetches <= 3
    /\ last_call = "refresh_first" =>
          /\ fetches = 1
          /\ Len(new_plays) = 1
          /\ appended = new_plays
          /\ plays_log = <<BuildEntry(new_plays[1], sport)>>
          /\ notified = << >>
    /\ (last_call = "refresh_later" /\ fetches = 2) =>
          /\ notified = <<Note("away", <<7, 0>>)>>
          /\ appended = << >>
          /\ ~_finalized
    /\ (last_call = "refresh_later" /\ fetches = 3) =>
          /\ notified = <<Note("gameover", <<7, 0>>)>>
          /\ appended = << >>
          /\ _finalized
    /\ last_call = "refresh_finalized" =>
          /\ fetches = 3
          /\ notified = << >>
          /\ appended = << >>
    /\ game_over_count = (IF fetches = 3 THEN 1 ELSE 0)
    /\ Len(plays_log) = (IF fetches = 0 THEN 0 ELSE IF fetches = 3 THEN 4 ELSE 1)

\* the timer, resumed by the user after the game is over, fires and the
\* session stays as the third tick left it
C11_Witness ==
    /\ last_call = "refresh_finalized"
    /\ fetches = 3
    /\ last_scores = <<7, 0>>
    /\ game_over_count = 1
    /\ plays_log[4].tags = {"score"}

\* a step of a key handler or of the search input
ViewStep ==
    last_call' \in {"toggle_view", "follow", "focus_search", "clear_search",
                    "filter", "search"}

\* C12: ticking stops only through finalization or the user's quit: _finalized
\* becomes true only in a successful tick whose merged lifecycle state is post;
\* a failed fetch, a tick with state pre or in and the key handlers (pause,
\* follow, filters, search, view toggle) never finalize the session and never
\* end the application, and while the session is not finalized its timer is
\* running or is paused with the pause flag set, so that the pause key resumes
\* it.
C12_StopsOnlyWhenOver ==
    [][/\ (_finalized' /\ ~_finalized) =>
             /\ last_call' \in {"refresh_first", "refresh_later"}
             /\ data' # << >>
             /\ MergedState(data', game_state) = "post"
       /\ last_call' = "refresh_nodata" => (~_finalized' /\ paused' = paused)
       /\ (last_call' \in {"refresh_first", "refresh_later"}
             /\ game_state' \in {"pre", "in"}) => ~_finalized'
       /\ last_call' = "pause" => _finalized' = _finalized
       /\ ViewStep =>
             /\ _finalized' = _finalized
             /\ _timer' = _timer
             /\ paused' = paused
             /\ app' = app
       /\ app' \notin {"new", "running"} => last_call' = "quit"
       /\ (app' = "running" /\ ~_finalized') =>
             \/ _timer' = "running"
             \/ _timer' = "paused" /\ paused']_vars

\* a team entry whose score is missing, null or no number
HasBadScore(d) ==
    \E i \in 1..Len(d.competitors) :
        LET v == d.competitors[i].score
        IN  v.json \in {"null", "missing"} \/ ~IsNumeric(v.value)

\* C13: a tick whose snapshot is not empty is never ended by a malformed
\* record: refresh_data completes and the application keeps running, a team
\* entry whose score is missing, null or not numeric makes the pair (0, 0), no
\* play without identifier is returned, and every play that has an identifier
\* has been processed.
C13_MalformedNotFatal ==
    (data # << >> /\ last_call \in {"refresh_first", "refresh_later",
                                    "refresh_raised"}) =>
        /\ last_call # "refresh_raised"
        /\ app = "running"
        /\ HasBadScore(data) => last_scores = <<0, 0>>
        /\ \A i \in 1..Len(new_plays) : new_plays[i].id # 0
        /\ \A i \in 1..Len(FeedOf(data, sport)) :
               FeedOf(data, sport)[i].id # 0 =>
                   FeedOf(data, sport)[i].id \in last_play_ids

\* the identifiers carried by the records of a play list
IdsIn(plays) == {plays[i].id : i \in 1..Len(plays)} \ {0}

\* C14: an extractor call drops every record without identifier: no such
\* record is returned, the seen set grows by exactly the identifiers the list
\* carries, and what is returned are the carried identifiers not seen before;
\* an empty list (or one of id-less records only) returns the empty list and
\* leaves the seen set unchanged.
C14_IdlessDropped ==
    [][app' = "extracted" =>
          LET plays == FeedOf(data, sport)
          IN  /\ \A k \in 1..Len(new_plays') : new_plays'[k].id # 0
              /\ 0 \notin last_play_ids'
              /\ last_play_ids' = last_play_ids \cup IdsIn(plays)
              /\ IdsOf(new_plays') = IdsIn(plays) \ last_play_ids
              /\ Len(new_plays') = Cardinality(IdsIn(plays) \ last_play_ids)
              /\ IdsIn(plays) = {} =>
                    (new_plays' = << >> /\ last_play_ids' = last_play_ids)]_vars

\* a record without identifier stood between two unseen plays, which are the
\* two plays returned
C14_Witness ==
    /\ app = "extracted"
    /\ Len(FeedOf(data, sport)) = 3
    /\ FeedOf(data, sport)[2].id = 0
    /\ Len(new_plays) = 2
    /\ new_plays[1].id = FeedOf(data, sport)[1].id
    /\ new_plays[2].id = FeedOf(data, sport)[3].id
    /\ Cardinality(last_play_ids) = 3

\* C15: a football play whose text is "12-yard touchdown pass" gets the tag
\* score, whatever its scoring flag and type label are.
C15_TouchdownScores ==
    (app = "classified" /\ sport = "nfl" /\ arg_play.text = T_touchdown_pass)
        => "score" \in ret_tags

\* C16: a basketball play whose text is "missed three point jumper" and whose
\* scoring flag is not set gets neither the tag score nor the tag three.
C16_MissedThree ==
    (app = "classified" /\ sport = "ncaambb" /\ arg_play.text = T_missed_three
        /\ ~arg_play.scoring)
        => ("score" \notin ret_tags /\ "three" \notin ret_tags)

\* that play classified: no tag, the emoji of a miss
C16_Witness ==
    /\ app = "classified"
    /\ sport = "ncaambb"
    /\ arg_play.text = T_missed_three
    /\ ~arg_play.scoring
    /\ arg_overrides = << >>
    /\ ret_tags = {}
    /\ ret_emoji = "cross"

\* the keyword occurs in the text or in the type label, in any letter case
InTextOrType(k) ==
    \/ Contains(k, Lower(arg_play.text))
    \/ Contains(k, Lower(arg_play.type))

\* C17: a play gets a tag whenever a keyword of the tag occurs in its text or
\* in its type label, in any letter case: penalty/foul, and for football
\* intercept/fumble, sack, punt, for basketball turnover/steal.
C17_TextAndTypeSearched ==
    app = "classified" =>
        /\ (InTextOrType(Kw.penalty) \/ InTextOrType(Kw.foul))
              => "penalty" \in ret_tags
        /\ sport = "nfl" =>
              /\ (InTextOrType(Kw.intercept) \/ InTextOrType(Kw.fumble))
                    => "turnover" \in ret_tags
              /\ InTextOrType(Kw.sack) => "sack" \in ret_tags
              /\ InTextOrType(Kw.punt) => "punt" \in ret_tags
        /\ sport # "nfl" =>
              ((InTextOrType(Kw.turnover) \/ InTextOrType(Kw.steal))
                    => "turnover" \in ret_tags)

\* C18: under basketball no play gets the tag sack or punt, under football no
\* play gets the tag three.
C18_SportSelectsRules ==
    app = "classified" =>
        /\ sport # "nfl" => ret_tags \cap {"sack", "punt"} = {}
        /\ sport = "nfl" => "three" \notin ret_tags

\* a basketball play whose text says sack and punt and whose type label says
\* punt: no tag
C18_Witness ==
    /\ app = "classified"
    /\ sport = "ncaambb"
    /\ Contains(Kw.sack, Lower(arg_play.text))
    /\ Contains(Kw.punt, Lower(arg_play.text))
    /\ Contains(Kw.punt, Lower(arg_play.type))
    /\ ret_tags = {}

\* the place of an emoji's label in the precedence: override, score, turnover,
\* penalty, punt, sack, timeout, miss/incomplete, pass, run, default bullet
EmojiRank(e) ==
    CASE e \in {"fire", "star", "boot"} -> 1
      [] e \in {"football", "dart", "shield", "plus", "keycap2", "green",
                "basketball"} -> 2
      [] e \in {"gloves", "collision"} -> 3
      [] e \in {"flag", "siren"} -> 4
      [] e = "leg" -> 5
      [] e = "bricks" -> 6
      [] e = "stopwatch" -> 7
      [] e = "cross" -> 8
      [] e = "thumbsup" -> 9
      [] e = "runner" -> 10
      [] e = "bullet" -> 11
      [] OTHER -> 0

\* the override entries that apply to a play with the lowered text and type
\* label: needle and emoji not empty, the needle in the text or the type label
ApplicableOverrides(text, ptype) ==
    {i \in 1..Len(arg_overrides) :
        /\ arg_overrides[i].needle # << >>
        /\ arg_overrides[i].emoji # ""
        /\ \E needle \in {Lower(arg_overrides[i].needle)} :
              Contains(needle, text) \/ Contains(needle, ptype)}

\* which of the conditions a play with the lowered text and type label
\* satisfies, in the order of the precedence
Satisfied(text, ptype) ==
    <<ApplicableOverrides(text, ptype) # {},
      "score" \in ret_tags,
      "turnover" \in ret_tags,
      "penalty" \in ret_tags,
      "punt" \in ret_tags,
      "sack" \in ret_tags,
      Contains(Kw.timeout, text) \/ Contains(Kw.timeout, ptype),
      Contains(Kw.miss, text) \/ Contains(Kw.incomplete, text),
      Contains(Kw.pass, text) \/ Contains(Kw.pass, ptype),
      \/ Contains(Kw.left, text)
      \/ Contains(Kw.right, text)
      \/ Contains(Kw.up_the_middle, text)
      \/ Contains(Kw.rush, text)
      \/ Contains(Kw.run, ptype),
      TRUE>>

\* C19: the emoji chosen for a play is the one of the first condition the play
\* satisfies in the order override, score, turnover, penalty, punt, sack,
\* timeout, miss/incomplete, pass, run, default; when an override applies it is
\* the emoji of the first entry that applies.
C19_EmojiPrecedence ==
    app = "classified" =>
        \A text \in {Lower(arg_play.text)}, ptype \in {Lower(arg_play.type)} :
            \A sat \in {Satisfied(text, ptype)},
               applicable \in {ApplicableOverrides(text, ptype)} :
                /\ sat[EmojiRank(ret_emoji)]
                /\ \A i \in 1..(EmojiRank(ret_emoji) - 1) : ~sat[i]
                /\ applicable # {} =>
                      \E i \in applicable :
                          /\ ret_emoji = arg_overrides[i].emoji
                          /\ \A j \in applicable : i <= j

\* a scoring football play that is also a turnover, a penalty and a pass gets
\* the emoji of a score
C19_Witness ==
    /\ app = "classified"
    /\ sport = "nfl"
    /\ arg_overrides = << >>
    /\ ret_tags = {"score", "turnover", "penalty"}
    /\ InTextOrType(Kw.pass)
    /\ ret_emoji = "green"

Reverse(xs) == [i \in 1..Len(xs) |-> xs[Len(xs) + 1 - i]]

\* C21: after a tick that processed a snapshot and did not end the game, the
\* buffer is the first max_scrollback entries of the surfaced plays, newest
\* first, followed by the buffer as it was: what is cut is always the oldest.
C21_NewestFirst ==
    [][(last_call' \in {"refresh_first", "refresh_later"} /\ ~_finalized')
          => plays_log' =
                FirstN(Reverse([i \in 1..Len(appended') |->
                                   LogEntry(appended'[i], sport)])
                           \o plays_log,
                       MaxKeep(max_scrollback))]_vars

\* a later tick surfaced fewer plays than the buffer holds: they head the
\* buffer, the newest of the earlier entries follow and the oldest are gone
C21_Witness ==
    /\ last_call = "refresh_later"
    /\ ~_finalized
    /\ Len(appended) >= 1
    /\ Len(appended) < max_scrollback
    /\ Len(plays_log) = max_scrollback
    /\ Cardinality(last_play_ids) > max_scrollback
    /\ plays_log[1] = LogEntry(appended[Len(appended)], sport)

\* C22: when the fetches return a finished game from some fetch on, the timer
\* fires while it runs and the user leaves it neither paused nor quits, the
\* session is eventually finalized and the game-over notification has fired.
C22_EventuallyFinalized == <>(_finalized /\ game_over_count = 1)

\* the session went through all its fetches, surfaced plays on the way and is
\* finalized: the buffer holds plays under the three game-over lines
C22_Witness ==
    /\ _finalized
    /\ game_over_count = 1
    /\ fetches = MaxTicks
    /\ initialized
    /\ Len(plays_log) > Len(FinalLines(last_scores))
    /\ SubSeq(plays_log, 1, Len(FinalLines(last_scores))) = FinalLines(last_scores)

\* a step in which refresh_data fetched a snapshot and processed it
SnapshotTick ==
    /\ fetches' = fetches + 1
    /\ data' # << >>
    /\ last_call' # "refresh_raised"

\* C23: initialized never goes back to false; it becomes true on the first
\* tick that processes a snapshot, whatever failed ticks came before, and on no
\* other step; that tick appends the three header lines to the empty
\* static_log, surfaces the last ten new plays and fires no play or score
\* notification; static_log has length 0 until then and 3 from then on.
C23_FirstTickOnce ==
    [][/\ initialized => initialized'
       /\ (~initialized /\ SnapshotTick) => initialized'
       /\ (~initialized /\ initialized') =>
             /\ SnapshotTick
             /\ last_call' = "refresh_first"
             /\ static_log = << >>
             /\ static_log' = HeaderLines
             /\ appended' = LastN(new_plays', FirstTickLimit)
             /\ \A k \in 1..Len(notified') : notified'[k].kind = "gameover"
       /\ initialized =>
             (static_log' = static_log /\ last_call' # "refresh_first")
       /\ Len(static_log') = (IF initialized' THEN Len(HeaderLines) ELSE 0)]_vars

\* the first snapshot came on the last fetch, after failed ticks only, and
\* carried a scoring play
C23_Witness ==
    /\ last_call = "refresh_first"
    /\ fetches = MaxTicks
    /\ initialized
    /\ static_log = HeaderLines
    /\ \E k \in 1..Len(appended) : appended[k].scoring

\* the number of scoring plays of a list
ScoringCount(plays) == Cardinality({k \in 1..Len(plays) : plays[k].scoring})

\* C24: after the first tick that processes a snapshot every identifier of
\* that snapshot is in the seen-id set, the plays outside its last ten
\* included; the seen-id set never loses an identifier; and a later tick
\* appends and notifies only plays whose identifier was not in the seen-id
\* set, so a play cut off on the first tick is never appended or notified
\* later, whatever snapshots repeat it.
C24_CutPlaysSuppressed ==
    [][/\ last_play_ids \subseteq last_play_ids'
       /\ (GoodTick /\ ~initialized) =>
             /\ IdsIn(FeedOf(data', sport)) \subseteq last_play_ids'
             /\ IdsOf(new_plays') = IdsIn(FeedOf(data', sport))
             /\ appended' = LastN(new_plays', FirstTickLimit)
       /\ (GoodTick /\ initialized) =>
             /\ IdsOf(appended') \cap last_play_ids = {}
             /\ Len(OfKind(notified', {"play"})) = ScoringCount(appended')]_vars

\* the first snapshot had more than ten plays and a later snapshot repeats
\* them all: nothing is appended or notified and the buffer still holds ten
C24_Witness ==
    /\ last_call = "refresh_later"
    /\ ~_finalized
    /\ Len(FeedOf(data, sport)) = MaxId
    /\ Cardinality(last_play_ids) = MaxId
    /\ MaxKeep(max_scrollback) > FirstTickLimit
    /\ Len(plays_log) = FirstTickLimit
    /\ appended = << >>
    /\ notified = << >>

\* C25: in every step of a session the plays appended have pairwise different
\* identifiers, none of which any earlier extraction returned, so no identifier
\* is appended twice; scoring-play notifications are fired only on ticks after
\* the first, one for each scoring play appended in that tick, so their total
\* is the number of scoring identifiers first seen after the first tick; a
\* step that is no processed tick (failed tick, pause, resume, quit) appends
\* and notifies nothing.
C25_AtMostOnce ==
    [][/\ \A j, k \in 1..Len(appended') :
             j # k => appended'[j].id # appended'[k].id
       /\ IdsOf(appended') \cap returned_ids = {}
       /\ IdsOf(appended') \subseteq returned_ids'
       /\ Len(OfKind(notified', {"play"})) =
             (IF initialized THEN ScoringCount(appended') ELSE 0)
       /\ ~GoodTick => (appended' = << >> /\ notified' = << >>)]_vars

\* a later tick whose snapshot repeats plays seen before and brings new ones,
\* one of them scoring: one notification, the new plays appended
C25_Witness ==
    /\ last_call = "refresh_later"
    /\ Len(appended) > 1
    /\ Len(FeedOf(data, sport)) > Len(appended)
    /\ ScoringCount(appended) = 1
    /\ Len(OfKind(notified, {"play"})) = 1
    /\ returned_ids = IdsIn(FeedOf(data, sport))

\* C26: the tick after the first on which the game is found over is processed
\* like any later tick before the session is finalized: its new plays, none
\* seen before, are appended and lie under the game-over lines; its
\* notifications are one per new scoring play, then at most one score
\* notification, then the game-over notification, all with the tick's scores.
C26_PostTickInFull ==
    (last_call = "refresh_later" /\ _finalized) =>
        LET n     == ScoringCount(new_plays)
            kinds == KindsOf(notified)
        IN  /\ game_state = "post"
            /\ appended = new_plays
            /\ Cardinality(IdsOf(new_plays)) = Len(new_plays)
            /\ IdsOf(new_plays) \subseteq IdsIn(FeedOf(data, sport))
            /\ SubSeq(plays_log, 1, Len(FinalLines(last_scores)))
                  = FinalLines(last_scores)
            /\ HeadsBuffer(new_plays)
            /\ Len(kinds) \in {n + 1, n + 2}
            /\ \A k \in 1..n : kinds[k] = "play"
            /\ Len(kinds) = n + 2 => kinds[n + 1] \in {"away", "home"}
            /\ kinds[Len(kinds)] = "gameover"
            /\ \A k \in 1..Len(notified) :
                  <<notified[k].away, notified[k].home>> = get_scores(data, sport)

\* the game is found over on a later tick that brings two new plays, one of
\* them scoring, and a higher away score: three notifications in that order
C26_Witness ==
    /\ last_call = "refresh_later"
    /\ _finalized
    /\ Len(new_plays) = 2
    /\ KindsOf(notified) = <<"play", "away", "gameover">>
    /\ Len(plays_log) > Len(FinalLines(last_scores))

\* the positions of the buffer, in increasing order
Increasing(S) == [k \in 1..Cardinality(S) |-> KthOf(S, k)]

\* C27: the filter keys, a change of the search query and the follow key leave
\* plays_log, the seen-id set, the last scores and the initialized and
\* finalized flags as they were and fire no notification; and at any time the
\* filtered view has at most max_plays lines and is made of the lines of some
\* entries of plays_log, in the buffer's order, each carrying the tag of the
\* active filter (none is asked for under "all") and the search query in its
\* raw text.
C27_ViewActionsPure ==
    /\ [][last_call' \in {"filter", "search", "follow"} =>
             /\ UNCHANGED <<plays_log, last_play_ids, last_scores, initialized,
                            _finalized>>
             /\ notified' = << >>]_vars
    /\ [](\A view \in {_filtered_lines(plays_log, filter_mode, search_query,
                                      max_plays)} :
             /\ Len(view) <= max_plays
             /\ \E S \in SUBSET (1..Len(plays_log)) :
                   /\ Cardinality(S) = Len(view)
                   /\ \A k \in 1..Len(view) :
                         LET item == plays_log[Increasing(S)[k]]
                         IN  /\ view[k] = item.line
                             /\ filter_mode = "scores" => "score" \in item.tags
                             /\ filter_mode = "penalties" => "penalty" \in item.tags
                             /\ filter_mode = "turnovers" => "turnover" \in item.tags
                             /\ \E i \in 0..(Len(item.raw) - Len(search_query)) :
                                   SubSeq(item.raw, i + 1, i + Len(search_query))
                                      = search_query)

\* the game is over, the user filters on penalties and types a query: of the
\* buffer's entries, more than max_plays, one is shown, while without filter
\* and query the view is cut at max_plays
C27_Witness ==
    /\ last_call = "search"
    /\ filter_mode = "penalties"
    /\ search_query # << >>
    /\ _finalized
    /\ Len(plays_log) > max_plays
    /\ Len(_filtered_lines(plays_log, filter_mode, search_query, max_plays)) = 1
    /\ Len(_filtered_lines(plays_log, "all", << >>, max_plays)) = max_plays

====
